---------------------------- MODULE Spec2Model ----------------------------
(***************************************************************************)
(* A model of organize_files.py: the extension classifier, the directory    *)
(* exclusion policy, the tree scanner (scan_for_files) and the link         *)
(* planner and materializer (create_hybrid_structure,                       *)
(* create_symbolic_links).                                                  *)
(*                                                                          *)
(* Text is modelled as sequences of one-character strings, so that          *)
(* lower-casing, suffix extraction and the "<stem>_<counter><suffix>"       *)
(* formatting are computed and not assumed.  A path is pathlib's triple     *)
(* (drive, root, names).                                                    *)
(***************************************************************************)
EXTENDS Integers, Sequences, FiniteSets, TLC

VARIABLES
    pc,             \* position of the modelled call
    arg,            \* argument of a pure-function call
    ret,            \* value returned by a pure-function call
    drives,         \* scan_for_files: the list of roots
    has_callback,   \* scan_for_files: whether progress_callback is given
    di,             \* scan_for_files: index of the drive being walked
    stack,          \* os.walk: directories still to visit
    cur,            \* os.walk: the (root, dirs, files) tuple being processed
    fi,             \* index of the next file of cur.files
    found,          \* files in discovery order, as (category, path)
    scanned_count,  \* scan_for_files: scanned_count
    skipped_count,  \* scan_for_files: skipped_count
    raised,         \* history: paths at which progress_callback raised
    inventory,      \* create_symbolic_links: files_by_category
    fs,             \* the output tree: path under output_dir -> entry
    dry_run,        \* create_symbolic_links: dry_run
    run,            \* number of the pipeline run (1 or 2)
    ci,             \* index of the category being processed
    si,             \* index of the source file within the category
    stats,          \* create_symbolic_links: stats
    log,            \* history: one record per processed file of this run
    prev,           \* history: log of the previous run
    fs0,            \* history: the output tree when this run started
    faults          \* number of injected link-creation faults so far

pureVars == <<arg, ret>>
scanVars == <<drives, has_callback, di, stack, cur, fi, found,
              scanned_count, skipped_count, raised>>
linkVars == <<inventory, fs, dry_run, run, ci, si, stats, log, prev, fs0,
              faults>>
vars == <<pc, pureVars, scanVars, linkVars>>

-----------------------------------------------------------------------------
(* Bounds of the model.                                                     *)

MaxStemLen == 2
MaxDepth == 3
MaxFiles == 2
MaxFaults == 1
ExtraFiles == 2

-----------------------------------------------------------------------------
(* Text.                                                                    *)

None == "None"

UpperCase == <<"A","B","C","D","E","F","G","H","I","J","K","L","M",
               "N","O","P","Q","R","S","T","U","V","W","X","Y","Z">>
LowerCase == <<"a","b","c","d","e","f","g","h","i","j","k","l","m",
               "n","o","p","q","r","s","t","u","v","w","x","y","z">>

Range(s) == {s[i] : i \in DOMAIN s}

\* str.lower() on one character
LowerChar(c) ==
    IF \E i \in DOMAIN UpperCase : UpperCase[i] = c
        THEN LowerCase[CHOOSE i \in DOMAIN UpperCase : UpperCase[i] = c]
        ELSE c

\* str.lower()
Lower(s) == [i \in DOMAIN s |-> LowerChar(s[i])]

\* str.startswith(c) for a one-character prefix
StartsWith(s, c) == Len(s) >= 1 /\ s[1] = c

\* str.rfind(c), 1-based; 0 when c does not occur (Python's -1)
RFind(s, c) ==
    IF \E i \in DOMAIN s : s[i] = c
        THEN CHOOSE i \in DOMAIN s : s[i] = c /\ \A j \in DOMAIN s : s[j] = c => j <= i
        ELSE 0

\* str.replace(c, '') for a one-character c
RECURSIVE Remove(_, _)
Remove(s, c) ==
    IF s = <<>> THEN <<>>
    ELSE IF Head(s) = c THEN Remove(Tail(s), c)
    ELSE <<Head(s)>> \o Remove(Tail(s), c)

DigitChars == <<"0","1","2","3","4","5","6","7","8","9">>

\* str(n) for n >= 0, as the f-string of line 210 formats the counter
RECURSIVE Decimal(_)
Decimal(n) ==
    IF n < 10 THEN <<DigitChars[n + 1]>>
    ELSE Decimal(n \div 10) \o <<DigitChars[(n % 10) + 1]>>

-----------------------------------------------------------------------------
(* pathlib: a path is (drive, root, names).                                 *)

MkPath(drive, root, names) == [drive |-> drive, root |-> root, names |-> names]

Posix(names) == MkPath(<<>>, <<"/">>, names)
Windows(names) == MkPath(<<"C", ":">>, <<"\\">>, names)
Relative(names) == MkPath(<<>>, <<>>, names)

\* PurePath.name
PathName(p) == IF p.names = <<>> THEN <<>> ELSE p.names[Len(p.names)]

\* PurePath.parent
PathParent(p) ==
    IF p.names = <<>> THEN p
    ELSE [p EXCEPT !.names = SubSeq(p.names, 1, Len(p.names) - 1)]

\* PurePath.parts
PathParts(p) ==
    (IF p.drive \o p.root = <<>> THEN <<>> ELSE <<p.drive \o p.root>>) \o p.names

\* PurePath.__truediv__ with one name; an empty segment is dropped
PathJoin(p, n) == IF n = <<>> THEN p ELSE [p EXCEPT !.names = Append(p.names, n)]

\* PurePath.suffix (Python 3.11): name[i:] when 0 < rfind('.') < len(name) - 1
PathSuffix(p) ==
    LET name == PathName(p)
        i == RFind(name, ".")
    IN IF 1 < i /\ i < Len(name) THEN SubSeq(name, i, Len(name)) ELSE <<>>

\* PurePath.stem
PathStem(p) ==
    LET name == PathName(p)
        i == RFind(name, ".")
    IN IF 1 < i /\ i < Len(name) THEN SubSeq(name, 1, i - 1) ELSE name

-----------------------------------------------------------------------------
(* Static configuration.                                                    *)

Categories == {"pictures", "audio", "video", "text"}

\* dict iteration order of FILE_CATEGORIES
CategoryOrder == <<"pictures", "audio", "video", "text">>

FILE_CATEGORIES ==
    [c \in Categories |->
       CASE c = "pictures" ->
            {<<".", "j", "p", "g">>,
             <<".", "j", "p", "e", "g">>,
             <<".", "p", "n", "g">>,
             <<".", "g", "i", "f">>,
             <<".", "b", "m", "p">>,
             <<".", "w", "e", "b", "p">>,
             <<".", "s", "v", "g">>,
             <<".", "t", "i", "f", "f">>,
             <<".", "t", "i", "f">>,
             <<".", "i", "c", "o">>,
             <<".", "h", "e", "i", "c">>,
             <<".", "r", "a", "w">>}
         [] c = "audio" ->
            {<<".", "m", "p", "3">>,
             <<".", "w", "a", "v">>,
             <<".", "f", "l", "a", "c">>,
             <<".", "m", "4", "a">>,
             <<".", "a", "a", "c">>,
             <<".", "o", "g", "g">>,
             <<".", "w", "m", "a">>,
             <<".", "o", "p", "u", "s">>,
             <<".", "a", "p", "e">>,
             <<".", "a", "l", "a", "c">>}
         [] c = "video" ->
            {<<".", "m", "p", "4">>,
             <<".", "a", "v", "i">>,
             <<".", "m", "k", "v">>,
             <<".", "m", "o", "v">>,
             <<".", "w", "m", "v">>,
             <<".", "f", "l", "v">>,
             <<".", "w", "e", "b", "m">>,
             <<".", "m", "4", "v">>,
             <<".", "m", "p", "g">>,
             <<".", "m", "p", "e", "g">>,
             <<".", "3", "g", "p">>}
         [] c = "text" ->
            {<<".", "t", "x", "t">>,
             <<".", "p", "d", "f">>,
             <<".", "d", "o", "c">>,
             <<".", "d", "o", "c", "x">>,
             <<".", "r", "t", "f">>,
             <<".", "o", "d", "t">>,
             <<".", "m", "d">>,
             <<".", "e", "p", "u", "b">>,
             <<".", "m", "o", "b", "i">>}
    ]

EXCLUDED_DIRS ==
    {<<"w", "i", "n", "d", "o", "w", "s">>,
     <<"p", "r", "o", "g", "r", "a", "m", " ", "f", "i", "l", "e", "s">>,
     <<"p", "r", "o", "g", "r", "a", "m", " ", "f", "i", "l", "e", "s", " ", "(", "x", "8", "6", ")">>,
     <<"p", "r", "o", "g", "r", "a", "m", "d", "a", "t", "a">>,
     <<"$", "r", "e", "c", "y", "c", "l", "e", ".", "b", "i", "n">>,
     <<"s", "y", "s", "t", "e", "m", " ", "v", "o", "l", "u", "m", "e", " ", "i", "n", "f", "o", "r", "m", "a", "t", "i", "o", "n">>,
     <<"$", "w", "i", "n", "d", "o", "w", "s", ".", "~", "b", "t">>,
     <<"$", "w", "i", "n", "d", "o", "w", "s", ".", "~", "w", "s">>,
     <<"r", "e", "c", "o", "v", "e", "r", "y">>,
     <<"b", "o", "o", "t">>,
     <<"m", "s", "o", "c", "a", "c", "h", "e">>,
     <<"p", "e", "r", "f", "l", "o", "g", "s">>,
     <<"a", "p", "p", "d", "a", "t", "a">>,
     <<"t", "e", "m", "p">>,
     <<"t", "m", "p">>,
     <<"c", "a", "c", "h", "e">>,
     <<"c", "a", "c", "h", "e", "s">>,
     <<"n", "o", "d", "e", "_", "m", "o", "d", "u", "l", "e", "s">>,
     <<"v", "e", "n", "v">>,
     <<"_", "_", "p", "y", "c", "a", "c", "h", "e", "_", "_">>,
     <<".", "v", "e", "n", "v">>,
     <<"e", "n", "v">>,
     <<"b", "u", "i", "l", "d">>,
     <<"d", "i", "s", "t">>,
     <<".", "n", "e", "x", "t">>,
     <<".", "n", "u", "x", "t">>,
     <<"t", "a", "r", "g", "e", "t">>,
     <<".", "g", "i", "t">>,
     <<".", "s", "v", "n">>,
     <<".", "h", "g">>,
     <<".", "c", "a", "c", "h", "e">>,
     <<".", "c", "o", "n", "f", "i", "g">>,
     <<".", "v", "s", "c", "o", "d", "e">>,
     <<".", "i", "d", "e", "a">>}

-----------------------------------------------------------------------------
(* The pure functions.                                                      *)

should_exclude_directory_no_ancestors(path) ==
    \/ StartsWith(PathName(path), ".")
    \/ Lower(PathName(path)) \in EXCLUDED_DIRS

should_exclude_directory(path) ==
    IF StartsWith(PathName(path), ".") THEN TRUE
    ELSE IF Lower(PathName(path)) \in EXCLUDED_DIRS THEN TRUE
    ELSE LET parts_lower == [i \in DOMAIN PathParts(path) |-> Lower(PathParts(path)[i])]
         IN \E excluded \in EXCLUDED_DIRS : excluded \in Range(parts_lower)

get_file_category_case_sensitive(file_path) ==
    LET extension == PathSuffix(file_path)
        hits == {i \in DOMAIN CategoryOrder :
                    extension \in FILE_CATEGORIES[CategoryOrder[i]]}
    IN IF hits = {} THEN None
       ELSE CategoryOrder[CHOOSE i \in hits : \A j \in hits : i <= j]

get_file_category(file_path) ==
    LET extension == Lower(PathSuffix(file_path))
        hits == {i \in DOMAIN CategoryOrder :
                    extension \in FILE_CATEGORIES[CategoryOrder[i]]}
    IN IF hits = {} THEN None
       ELSE CategoryOrder[CHOOSE i \in hits : \A j \in hits : i <= j]

-----------------------------------------------------------------------------
(* Values of the variables a specification does not use.                    *)

PureIdle == arg = None /\ ret = None

NoCur == [root |-> Relative(<<>>), dirs |-> <<>>, files |-> <<>>]

\* stats as initialised by create_symbolic_links
ZeroStats == [created |-> 0, failed |-> 0, skipped |-> 0]

ScanIdle ==
    /\ drives = <<>>
    /\ has_callback = FALSE
    /\ di = 0
    /\ stack = <<>>
    /\ cur = NoCur
    /\ fi = 0
    /\ found = <<>>
    /\ scanned_count = 0
    /\ skipped_count = 0
    /\ raised = {}

LinkIdle ==
    /\ inventory = <<>>
    /\ fs = {}
    /\ dry_run = FALSE
    /\ run = 0
    /\ ci = 0
    /\ si = 0
    /\ stats = ZeroStats
    /\ log = <<>>
    /\ prev = <<>>
    /\ fs0 = {}
    /\ faults = 0

-----------------------------------------------------------------------------
(* get_file_category applied to bounded inputs.                             *)

Upper(s) ==
    [i \in DOMAIN s |->
        IF \E k \in DOMAIN LowerCase : LowerCase[k] = s[i]
            THEN UpperCase[CHOOSE k \in DOMAIN LowerCase : LowerCase[k] = s[i]]
            ELSE s[i]]

\* first letter upper-cased: ".Jpg"
Capitalized(s) ==
    [i \in DOMAIN s |-> IF i = 2 THEN Upper(<<s[i]>>)[1] ELSE s[i]]

AllExtensions == UNION {FILE_CATEGORIES[c] : c \in Categories}

StemAlphabet == {"a", "B", "."}

Stems == UNION {[1..k -> StemAlphabet] : k \in 0..MaxStemLen}

ExtensionPool ==
    AllExtensions
        \cup {Upper(e) : e \in AllExtensions}
        \cup {Capitalized(e) : e \in AllExtensions}
        \cup {<<>>, <<".">>, <<".", "x", "y", "z">>, <<".", "j", "p">>,
              <<".", "j", "p", "g", "x">>, <<"j", "p", "g">>}

CategoryInputs ==
    {Relative(<<s \o e>>) : s \in Stems, e \in ExtensionPool}
        \cup {Posix(<<<<"d">>, s \o e>>) : s \in {<<"B">>, <<>>}, e \in ExtensionPool}

InitCategory ==
    /\ pc = "call"
    /\ arg \in CategoryInputs
    /\ ret = None
    /\ ScanIdle
    /\ LinkIdle

CallGetFileCategory ==
    /\ pc = "call"
    /\ ret' = get_file_category(arg)
    /\ pc' = "returned"
    /\ UNCHANGED <<arg, scanVars, linkVars>>

NextCategory == CallGetFileCategory

SpecCategory == InitCategory /\ [][NextCategory]_vars

-----------------------------------------------------------------------------
(* should_exclude_directory applied to bounded inputs.                      *)

DirNames ==
    {<<"W","i","n","d","o","w","s">>,
     <<"S","y","s","t","e","m","3","2">>,
     <<"P","r","o","g","r","a","m"," ","F","i","l","e","s">>,
     <<".","c","a","c","h","e">>,
     <<"n","o","d","e","_","m","o","d","u","l","e","s">>,
     <<"D","o","c","u","m","e","n","t","s">>,
     <<"P","i","c","t","u","r","e","s">>,
     <<"U","s","e","r","s">>,
     <<"A","b","e">>,
     <<".","p","r","i","v","a","t","e">>}

NameSeqs == UNION {[1..k -> DirNames] : k \in 1..MaxDepth}

ExcludeInputs == {Posix(n) : n \in NameSeqs} \cup {Windows(n) : n \in NameSeqs}

InitExclude ==
    /\ pc = "call"
    /\ arg \in ExcludeInputs
    /\ ret = FALSE
    /\ ScanIdle
    /\ LinkIdle

CallShouldExcludeDirectory ==
    /\ pc = "call"
    /\ ret' = should_exclude_directory(arg)
    /\ pc' = "returned"
    /\ UNCHANGED <<arg, scanVars, linkVars>>

NextExclude == CallShouldExcludeDirectory

SpecExclude == InitExclude /\ [][NextExclude]_vars

-----------------------------------------------------------------------------
(* The source tree that scan_for_files walks.  It is never written to.      *)

\* the cadence of progress_callback
ProgressEvery == 100

\* st_file_attributes of a file: "normal" (attribute readable, system bit
\* clear), "system" (bit 0x4 set), "noattr" (AttributeError: the platform has
\* no such attribute), "oserror" (stat fails)
File(name, attr) == [name |-> name, attr |-> attr]

BulkCount == ProgressEvery + ExtraFiles

BulkFiles ==
    [i \in 1..BulkCount |-> File(<<"f">> \o Decimal(i) \o <<".", "j", "p", "g">>, "noattr")]

Dir(path, readable, dirs, files) ==
    [path |-> path, readable |-> readable, dirs |-> dirs, files |-> files]

SourceTree ==
    {Dir(Posix(<<<<"d", "a", "t", "a">>>>), TRUE,
         <<<<"P", "h", "o", "t", "o", "s">>, <<"V", "a", "c", "a", "t", "i", "o", "n">>, <<".", "g", "i", "t">>>>,
         <<File(<<"n", "o", "t", "e", "s", ".", "t", "x", "t">>, "noattr")>>),
     Dir(Posix(<<<<"d", "a", "t", "a">>, <<"P", "h", "o", "t", "o", "s">>>>), TRUE, <<>>,
         <<File(<<"i", "m", "g", ".", "j", "p", "g">>, "noattr")>>),
     Dir(Posix(<<<<"d", "a", "t", "a">>, <<"V", "a", "c", "a", "t", "i", "o", "n">>>>), TRUE, <<>>,
         <<File(<<"i", "m", "g", ".", "j", "p", "g">>, "noattr")>>),
     Dir(Posix(<<<<"d", "a", "t", "a">>, <<".", "g", "i", "t">>>>), TRUE, <<>>,
         <<File(<<"c", "o", "n", "f", "i", "g">>, "noattr"), File(<<"l", "o", "g", "o", ".", "p", "n", "g">>, "noattr")>>),
     Dir(Posix(<<<<"h", "o", "m", "e">>>>), TRUE,
         <<<<"P", "i", "c", "s">>, <<"n", "o", "d", "e", "_", "m", "o", "d", "u", "l", "e", "s">>, <<"L", "o", "c", "k", "e", "d">>, <<"B", "u", "i", "l", "d">>>>,
         <<File(<<"a", ".", "J", "P", "G">>, "normal"), File(<<"s", "y", "s", ".", "m", "p", "3">>, "system"),
           File(<<"b", ".", "m", "p", "4">>, "oserror"), File(<<"R", "E", "A", "D", "M", "E">>, "noattr")>>),
     Dir(Posix(<<<<"h", "o", "m", "e">>, <<"P", "i", "c", "s">>>>), TRUE, <<<<"t", "m", "p">>>>,
         <<File(<<"c", ".", "p", "n", "g">>, "normal")>>),
     Dir(Posix(<<<<"h", "o", "m", "e">>, <<"P", "i", "c", "s">>, <<"t", "m", "p">>>>), TRUE, <<>>,
         <<File(<<"t", ".", "g", "i", "f">>, "normal")>>),
     Dir(Posix(<<<<"h", "o", "m", "e">>, <<"n", "o", "d", "e", "_", "m", "o", "d", "u", "l", "e", "s">>>>), TRUE, <<>>,
         <<File(<<"x", ".", "p", "n", "g">>, "normal")>>),
     Dir(Posix(<<<<"h", "o", "m", "e">>, <<"L", "o", "c", "k", "e", "d">>>>), FALSE, <<>>,
         <<File(<<"l", ".", "t", "x", "t">>, "normal")>>),
     Dir(Posix(<<<<"h", "o", "m", "e">>, <<"B", "u", "i", "l", "d">>>>), TRUE, <<<<"S", "u", "b">>>>,
         <<File(<<"y", ".", "g", "i", "f">>, "normal")>>),
     Dir(Posix(<<<<"h", "o", "m", "e">>, <<"B", "u", "i", "l", "d">>, <<"S", "u", "b">>>>), TRUE, <<>>,
         <<File(<<"z", ".", "t", "x", "t">>, "normal")>>),
     Dir(Posix(<<<<"b", "u", "l", "k">>>>), TRUE, <<<<"M", "o", "r", "e">>>>, BulkFiles),
     Dir(Posix(<<<<"b", "u", "l", "k">>, <<"M", "o", "r", "e">>>>), TRUE, <<>>,
         <<File(<<"m", ".", "m", "p", "3">>, "noattr")>>)}

\* the roots a scan may be given; /missing cannot be opened
Roots ==
    {Posix(<<<<"d", "a", "t", "a">>>>), Posix(<<<<"h", "o", "m", "e">>>>), Posix(<<<<"h", "o", "m", "e">>, <<"B", "u", "i", "l", "d">>>>),
     Posix(<<<<"m", "i", "s", "s", "i", "n", "g">>>>), Posix(<<<<"b", "u", "l", "k">>>>)}

MaxDrives == 2

DriveLists ==
    {d \in UNION {[1..k -> Roots] : k \in 1..MaxDrives} :
        \A i, j \in DOMAIN d : i # j => d[i] # d[j]}

\* os.scandir succeeds on the directory
CanList(path) == \E d \in SourceTree : d.path = path /\ d.readable

Listing(path) == CHOOSE d \in SourceTree : d.path = path

-----------------------------------------------------------------------------
(* scan_for_files.                                                          *)

\* a variant of line 139 that keeps every directory
FilterDirsKeepAll(root_path, dirs) == dirs

\* line 139: dirs[:] = [d for d in dirs if not should_exclude_directory(root_path / d)]
FilterDirs(root_path, dirs) ==
    SelectSeq(dirs, LAMBDA d : ~should_exclude_directory(PathJoin(root_path, d)))

\* lines 146-151: the file is skipped as a system file
IsSystemFile(file) == file.attr = "system"

\* dict(found_files): categories in order of first discovery, each with its
\* files in discovery order
GroupByCategory(seq) ==
    LET cats == {seq[i].category : i \in DOMAIN seq}
        first(c) == CHOOSE i \in DOMAIN seq :
                        seq[i].category = c /\ \A j \in 1..(i - 1) : seq[j].category # c
        rank(c) == Cardinality({d \in cats : first(d) < first(c)}) + 1
        cat(k) == CHOOSE c \in cats : rank(c) = k
        only(c) == SelectSeq(seq, LAMBDA e : e.category = c)
    IN [k \in 1..Cardinality(cats) |->
          [category |-> cat(k),
           files |-> [i \in DOMAIN only(cat(k)) |-> only(cat(k))[i].path]]]

InitScan ==
    /\ pc = "drives"
    /\ drives \in DriveLists
    /\ has_callback \in BOOLEAN
    /\ di = 1
    /\ stack = <<>>
    /\ cur = NoCur
    /\ fi = 0
    /\ found = <<>>
    /\ scanned_count = 0
    /\ skipped_count = 0
    /\ raised = {}
    /\ PureIdle
    /\ LinkIdle

\* line 130, 134: the next drive is taken and os.walk(drive) is started
StartDrive ==
    /\ pc = "drives"
    /\ di <= Len(drives)
    /\ stack' = <<drives[di]>>
    /\ pc' = "walk"
    /\ UNCHANGED <<drives, has_callback, di, cur, fi, found, scanned_count,
                   skipped_count, raised, pureVars, linkVars>>

\* os.walk yields nothing for a directory it cannot list (onerror is None)
WalkSkipUnreadable ==
    /\ pc = "walk"
    /\ stack # <<>>
    /\ ~CanList(Head(stack))
    /\ stack' = Tail(stack)
    /\ UNCHANGED <<pc, drives, has_callback, di, cur, fi, found, scanned_count,
                   skipped_count, raised, pureVars, linkVars>>

\* lines 134-139: os.walk yields (root, dirs, files) and dirs is filtered
WalkYield ==
    /\ pc = "walk"
    /\ stack # <<>>
    /\ CanList(Head(stack))
    /\ LET d == Listing(Head(stack))
       IN cur' = [root |-> d.path,
                  dirs |-> FilterDirs(d.path, d.dirs),
                  files |-> d.files]
    /\ stack' = Tail(stack)
    /\ fi' = 1
    /\ pc' = "files"
    /\ UNCHANGED <<drives, has_callback, di, found, scanned_count,
                   skipped_count, raised, pureVars, linkVars>>

\* lines 147-149: a system file is counted and skipped
ScanSystemFile ==
    /\ pc = "files"
    /\ fi <= Len(cur.files)
    /\ IsSystemFile(cur.files[fi])
    /\ skipped_count' = skipped_count + 1
    /\ fi' = fi + 1
    /\ UNCHANGED <<pc, drives, has_callback, di, stack, cur, found,
                   scanned_count, raised, pureVars, linkVars>>

\* lines 154-155: a file of no category is passed over
ScanUncategorized ==
    /\ pc = "files"
    /\ fi <= Len(cur.files)
    /\ ~IsSystemFile(cur.files[fi])
    /\ get_file_category(PathJoin(cur.root, cur.files[fi].name)) = None
    /\ fi' = fi + 1
    /\ UNCHANGED <<pc, drives, has_callback, di, stack, cur, found,
                   scanned_count, skipped_count, raised, pureVars, linkVars>>

\* lines 154-160: a file is classified and appended; progress_callback is
\* called every ProgressEvery files and returns
ScanFile ==
    /\ pc = "files"
    /\ fi <= Len(cur.files)
    /\ ~IsSystemFile(cur.files[fi])
    /\ LET file_path == PathJoin(cur.root, cur.files[fi].name)
           category == get_file_category(file_path)
       IN /\ category # None
          /\ found' = Append(found, [category |-> category, path |-> file_path])
    /\ scanned_count' = scanned_count + 1
    /\ fi' = fi + 1
    /\ UNCHANGED <<pc, drives, has_callback, di, stack, cur, skipped_count,
                   raised, pureVars, linkVars>>

\* lines 159-160, 165-167: progress_callback raises; the exception leaves
\* the walk of this drive and the next drive is taken
ScanFileCallbackRaises ==
    /\ pc = "files"
    /\ fi <= Len(cur.files)
    /\ ~IsSystemFile(cur.files[fi])
    /\ has_callback
    /\ (scanned_count + 1) % ProgressEvery = 0
    /\ LET file_path == PathJoin(cur.root, cur.files[fi].name)
           category == get_file_category(file_path)
       IN /\ category # None
          /\ found' = Append(found, [category |-> category, path |-> file_path])
          /\ raised' = raised \cup {file_path}
    /\ scanned_count' = scanned_count + 1
    /\ stack' = <<>>
    /\ cur' = NoCur
    /\ fi' = 0
    /\ di' = di + 1
    /\ pc' = "drives"
    /\ UNCHANGED <<drives, has_callback, skipped_count, pureVars, linkVars>>

\* os.walk resumes after the loop body and descends into the kept dirs
EndDir ==
    /\ pc = "files"
    /\ fi > Len(cur.files)
    /\ stack' = [i \in DOMAIN cur.dirs |-> PathJoin(cur.root, cur.dirs[i])] \o stack
    /\ cur' = NoCur
    /\ fi' = 0
    /\ pc' = "walk"
    /\ UNCHANGED <<drives, has_callback, di, found, scanned_count,
                   skipped_count, raised, pureVars, linkVars>>

\* os.walk is exhausted: back to the drive loop
EndDrive ==
    /\ pc = "walk"
    /\ stack = <<>>
    /\ di' = di + 1
    /\ pc' = "drives"
    /\ UNCHANGED <<drives, has_callback, stack, cur, fi, found, scanned_count,
                   skipped_count, raised, pureVars, linkVars>>

\* line 173: return dict(found_files)
FinishScan ==
    /\ pc = "drives"
    /\ di > Len(drives)
    /\ inventory' = GroupByCategory(found)
    /\ pc' = "scan_done"
    /\ UNCHANGED <<pureVars, scanVars, fs, dry_run, run, ci, si, stats, log,
                   prev, fs0, faults>>

NextScan ==
    \/ StartDrive
    \/ WalkSkipUnreadable
    \/ WalkYield
    \/ ScanSystemFile
    \/ ScanUncategorized
    \/ ScanFile
    \/ ScanFileCallbackRaises
    \/ EndDir
    \/ EndDrive
    \/ FinishScan

SpecScan == InitScan /\ [][NextScan]_vars

-----------------------------------------------------------------------------
(* The output tree.  A path under output_dir is a category and the names    *)
(* below it; an entry is a directory, a regular file or a symbolic link.    *)
(* A link is alive when the file it points to exists.                       *)

OutPath(category, names) == [category |-> category, names |-> names]

NoSource == Relative(<<>>)

\* a file of some other program, not one of the inventoried sources
Foreign == Posix(<<<<"e", "l", "s", "e", "w", "h", "e", "r", "e">>>>)

DirEntry(path) == [path |-> path, kind |-> "dir", to |-> NoSource, alive |-> TRUE]
FileEntry(path) == [path |-> path, kind |-> "file", to |-> NoSource, alive |-> TRUE]
LinkEntry(path, to, alive) == [path |-> path, kind |-> "link", to |-> to, alive |-> alive]

\* os.path.lexists
Lexists(tree, path) == \E e \in tree : e.path = path

\* Path.exists: follows symbolic links, so a dangling link does not exist
Exists(tree, path) == \E e \in tree : e.path = path /\ e.alive

\* Path.is_dir
IsDir(tree, path) == \E e \in tree : e.path = path /\ e.kind = "dir"

EntryAt(tree, path) == CHOOSE e \in tree : e.path = path

\* the ancestors of path below output_dir, and path itself, outermost first
Prefixes(path) ==
    [k \in 1..(Len(path.names) + 1) |->
        OutPath(path.category, SubSeq(path.names, 1, k - 1))]

\* Path.mkdir(parents=True, exist_ok=True)
Mkdir(tree, path) ==
    LET pre == Prefixes(path)
        blocked == {k \in DOMAIN pre : Lexists(tree, pre[k]) /\ ~IsDir(tree, pre[k])}
    IN IF blocked = {}
          THEN [tree |-> tree \cup {DirEntry(pre[k]) : k \in {j \in DOMAIN pre : ~Lexists(tree, pre[j])}},
                err |-> "ok"]
       ELSE LET k == CHOOSE i \in blocked : \A j \in blocked : i <= j
                e == EntryAt(tree, pre[k])
            IN [tree |-> tree,
                err |-> IF k = Len(pre) \/ ~e.alive
                           THEN "FileExistsError"
                           ELSE "NotADirectoryError"]

-----------------------------------------------------------------------------
(* create_hybrid_structure.                                                 *)

\* lines 193-195: the namespace
ParentName(source_file) ==
    LET parent_name == PathName(PathParent(source_file))
    IN IF parent_name = <<>> \/ parent_name = <<"\\">> \/ parent_name = <<"/">>
          THEN Remove(Remove(source_file.drive, ":"), "\\")
          ELSE parent_name

\* line 200: base_output_dir / category / parent_name
TargetDir(category, source_file) ==
    LET parent_name == ParentName(source_file)
    IN OutPath(category, IF parent_name = <<>> THEN <<>> ELSE <<parent_name>>)

\* line 210: target_dir / f"{stem}_{counter}{suffix}"
Suffixed(target_dir, source_file, counter) ==
    [target_dir EXCEPT !.names =
        Append(@, PathStem(source_file) \o <<"_">> \o Decimal(counter)
                      \o PathSuffix(source_file))]

\* lines 207-211: the loop, entered with target_path and counter
RECURSIVE WhileExists(_, _, _, _, _)
WhileExists(tree, target_dir, source_file, target_path, counter) ==
    IF Exists(tree, target_path)
        THEN WhileExists(tree, target_dir, source_file,
                         Suffixed(target_dir, source_file, counter), counter + 1)
        ELSE target_path

\* a variant of ResolveTarget that does not look for a free name
ResolveTargetNoLoop(tree, target_dir, source_file) ==
    [target_dir EXCEPT !.names = Append(@, PathName(source_file))]

\* lines 205-213
ResolveTarget(tree, target_dir, source_file) ==
    WhileExists(tree, target_dir, source_file,
                [target_dir EXCEPT !.names = Append(@, PathName(source_file))], 1)

\* a variant of MkdirUnlessDryRun that ignores dry_run
MkdirAlways(tree, target_dir, dry) == Mkdir(tree, target_dir)

\* lines 201-202
MkdirUnlessDryRun(tree, target_dir, dry) ==
    IF dry THEN [tree |-> tree, err |-> "ok"] ELSE Mkdir(tree, target_dir)

\* the whole function: the tree after it, the exception it raised ("ok" for
\* none) and the path it returned
create_hybrid_structure(tree, category, source_file, dry) ==
    LET target_dir == TargetDir(category, source_file)
        made == MkdirUnlessDryRun(tree, target_dir, dry)
    IN [tree |-> made.tree,
        err |-> made.err,
        target |-> IF made.err = "ok"
                      THEN ResolveTarget(made.tree, target_dir, source_file)
                      ELSE target_dir]

-----------------------------------------------------------------------------
(* create_symbolic_links.                                                   *)

\* a variant of Handler whose except clauses are in the wrong order
HandlerOSErrorFirst(exception) == "failed"

\* lines 259-266: the counter the except clauses increment
Handler(exception) ==
    IF exception = "FileExistsError" THEN "skipped"
    ELSE "failed"

Count(st, key) == [st EXCEPT ![key] = @ + 1]

\* the source files of files_by_category in the order the loops visit them
Group == inventory[ci]
Source == inventory[ci].files[si]

AtFile == pc = "link" /\ ci <= Len(inventory)

\* the loops of lines 239 and 242 move on
Advance ==
    IF si < Len(Group.files)
        THEN /\ si' = si + 1
             /\ ci' = ci
        ELSE /\ si' = 1
             /\ ci' = ci + 1

Planned == create_hybrid_structure(fs, Group.category, Source, dry_run)

Record(event, by, target) ==
    [source |-> Source, category |-> Group.category, target |-> target,
     event |-> event, by |-> by]

\* lines 245-249: dry run
LinkDryRun ==
    LET plan == Planned
    IN
    /\ AtFile
    /\ dry_run
    /\ fs' = plan.tree
    /\ stats' = Count(stats, "created")
    /\ log' = Append(log, Record("would_link", "none", plan.target))
    /\ Advance
    /\ UNCHANGED <<pc, pureVars, scanVars, inventory, dry_run, run, prev, fs0, faults>>

\* line 245 raises: target_dir.mkdir fails
LinkMkdirFails ==
    LET plan == Planned
    IN
    /\ AtFile
    /\ ~dry_run
    /\ plan.err # "ok"
    /\ fs' = plan.tree
    /\ stats' = Count(stats, Handler(plan.err))
    /\ log' = Append(log, Record(plan.err, "mkdir", plan.target))
    /\ Advance
    /\ UNCHANGED <<pc, pureVars, scanVars, inventory, dry_run, run, prev, fs0, faults>>

\* lines 252-253: os.symlink succeeds
LinkCreated ==
    LET plan == Planned
    IN
    /\ AtFile
    /\ ~dry_run
    /\ plan.err = "ok"
    /\ ~Lexists(plan.tree, plan.target)
    /\ fs' = plan.tree \cup {LinkEntry(plan.target, Source, TRUE)}
    /\ stats' = Count(stats, "created")
    /\ log' = Append(log, Record("linked", "none", plan.target))
    /\ Advance
    /\ UNCHANGED <<pc, pureVars, scanVars, inventory, dry_run, run, prev, fs0, faults>>

\* line 252 raises FileExistsError: the target is a dangling link, which
\* Path.exists did not see
LinkTargetExists ==
    LET plan == Planned
    IN
    /\ AtFile
    /\ ~dry_run
    /\ plan.err = "ok"
    /\ Lexists(plan.tree, plan.target)
    /\ fs' = plan.tree
    /\ stats' = Count(stats, Handler("FileExistsError"))
    /\ log' = Append(log, Record("FileExistsError", "symlink", plan.target))
    /\ Advance
    /\ UNCHANGED <<pc, pureVars, scanVars, inventory, dry_run, run, prev, fs0, faults>>

\* line 252 raises FileExistsError: another process created the target
\* between the check of line 207 and os.symlink
LinkRace ==
    LET plan == Planned
    IN
    /\ AtFile
    /\ ~dry_run
    /\ plan.err = "ok"
    /\ ~Lexists(plan.tree, plan.target)
    /\ faults < MaxFaults
    /\ faults' = faults + 1
    /\ fs' = plan.tree \cup {LinkEntry(plan.target, Foreign, TRUE)}
    /\ stats' = Count(stats, Handler("FileExistsError"))
    /\ log' = Append(log, Record("FileExistsError", "symlink", plan.target))
    /\ Advance
    /\ UNCHANGED <<pc, pureVars, scanVars, inventory, dry_run, run, prev, fs0>>

\* line 252 raises another OSError: no privilege, unsupported filesystem
LinkOSError ==
    LET plan == Planned
    IN
    /\ AtFile
    /\ ~dry_run
    /\ plan.err = "ok"
    /\ ~Lexists(plan.tree, plan.target)
    /\ faults < MaxFaults
    /\ faults' = faults + 1
    /\ fs' = plan.tree
    /\ stats' = Count(stats, Handler("OSError"))
    /\ log' = Append(log, Record("OSError", "symlink", plan.target))
    /\ Advance
    /\ UNCHANGED <<pc, pureVars, scanVars, inventory, dry_run, run, prev, fs0>>

\* line 268: return stats
ReturnStats ==
    /\ pc = "link"
    /\ ci > Len(inventory)
    /\ pc' = "link_done"
    /\ UNCHANGED <<pureVars, scanVars, linkVars>>

\* the pipeline is run again on the unchanged source tree (the scan returns
\* the same inventory) and the same output_dir
SecondRun ==
    /\ pc = "link_done"
    /\ run = 1
    /\ run' = 2
    /\ dry_run' \in BOOLEAN
    /\ stats' = ZeroStats
    /\ prev' = log
    /\ log' = <<>>
    /\ fs0' = fs
    /\ ci' = 1
    /\ si' = 1
    /\ pc' = "link"
    /\ UNCHANGED <<pureVars, scanVars, inventory, fs, faults>>

-----------------------------------------------------------------------------
(* The inputs of create_symbolic_links.                                     *)

Found(category, path) == [category |-> category, path |-> path]

Universe ==
    {Found("pictures", Posix(<<<<"a">>, <<"P", "h", "o", "t", "o", "s">>, <<"i", "m", "g", ".", "j", "p", "g">>>>)),
     Found("pictures", Posix(<<<<"b">>, <<"P", "h", "o", "t", "o", "s">>, <<"i", "m", "g", ".", "j", "p", "g">>>>)),
     Found("pictures", Posix(<<<<"a">>, <<"P", "h", "o", "t", "o", "s">>, <<"i", "m", "g", "_", "1", ".", "j", "p", "g">>>>)),
     Found("pictures", Posix(<<<<"i", "m", "g", ".", "j", "p", "g">>>>)),
     Found("pictures", Windows(<<<<"i", "m", "g", ".", "j", "p", "g">>>>)),
     Found("text", Posix(<<<<"a">>, <<"D", "o", "c", "s">>, <<"R", "E", "A", "D", "M", "E">>>>)),
     Found("text", Posix(<<<<"b">>, <<"D", "o", "c", "s">>, <<"R", "E", "A", "D", "M", "E">>>>))}

Discoveries ==
    {d \in UNION {[1..k -> Universe] : k \in 1..MaxFiles} :
        \A i, j \in DOMAIN d : i # j => d[i] # d[j]}

PhotosDir == OutPath("pictures", <<<<"P", "h", "o", "t", "o", "s">>>>)

\* output trees a run may start from: empty; a dangling link where the
\* first img.jpg goes; a regular file where a namespace directory goes; a
\* regular file where a category directory goes
InitialTrees ==
    {{},
     {DirEntry(OutPath("pictures", <<>>)), DirEntry(PhotosDir),
      LinkEntry(OutPath("pictures", <<<<"P", "h", "o", "t", "o", "s">>, <<"i", "m", "g", ".", "j", "p", "g">>>>), Foreign, FALSE)},
     {DirEntry(OutPath("pictures", <<>>)), FileEntry(PhotosDir)},
     {FileEntry(OutPath("text", <<>>))}}

Init ==
    /\ pc = "link"
    /\ inventory \in {GroupByCategory(d) : d \in Discoveries}
    /\ fs \in InitialTrees
    /\ fs0 = fs
    /\ dry_run \in BOOLEAN
    /\ run = 1
    /\ ci = 1
    /\ si = 1
    /\ stats = ZeroStats
    /\ log = <<>>
    /\ prev = <<>>
    /\ faults = 0
    /\ PureIdle
    /\ ScanIdle

Next ==
    \/ LinkDryRun
    \/ LinkMkdirFails
    \/ LinkCreated
    \/ LinkTargetExists
    \/ LinkRace
    \/ LinkOSError
    \/ ReturnStats
    \/ SecondRun

Spec == Init /\ [][Next]_vars

-----------------------------------------------------------------------------
(* Properties.                                                              *)

\* the number of inventoried files
RECURSIVE FilesIn(_)
FilesIn(groups) ==
    IF groups = <<>> THEN 0 ELSE Len(Head(groups).files) + FilesIn(Tail(groups))

\* the number of files the loops of create_symbolic_links have handled
Processed ==
    IF ci > Len(inventory) THEN FilesIn(inventory)
    ELSE FilesIn(SubSeq(inventory, 1, ci - 1)) + (si - 1)

\* the entries of the log for which create_hybrid_structure returned a path
Returned == {i \in DOMAIN log : log[i].by # "mkdir"}

\* the file name of a path of the output tree
LeafName(path) == path.names[Len(path.names)]

\* the exclusion policy as the specification words it: (a) a hidden name,
\* (b) a name of the exclusion set, (c) a component of the exclusion set
ExclusionPolicy(path) ==
    \/ Len(PathName(path)) > 0 /\ PathName(path)[1] = "."
    \/ Lower(PathName(path)) \in EXCLUDED_DIRS
    \/ \E i \in DOMAIN path.names : Lower(path.names[i]) \in EXCLUDED_DIRS

\* the directory of path that is k names deep
Ancestor(path, k) == [path EXCEPT !.names = SubSeq(path.names, 1, k)]

IsUnder(path, root) ==
    /\ path.drive = root.drive
    /\ path.root = root.root
    /\ Len(root.names) < Len(path.names)
    /\ SubSeq(path.names, 1, Len(root.names)) = root.names

FoundPaths == {found[i].path : i \in DOMAIN found}

(* C1: in a second live run on the same inventory and output tree, every    *)
(* file the first run linked is skipped and no new link is made for it.     *)
C1_SecondRunSkipsLinkedFiles ==
    (run = 2 /\ ~dry_run) =>
        \A i \in DOMAIN log :
            (\E j \in DOMAIN prev :
                /\ prev[j].source = log[i].source
                /\ prev[j].category = log[i].category
                /\ prev[j].event = "linked")
            => log[i].event = "FileExistsError"

(* C2: within one run, live or preview, no two calls of                     *)
(* create_hybrid_structure return the same target path.                     *)
C2_TargetsUniqueWithinRun ==
    \A i, j \in Returned : i # j => log[i].target # log[j].target

CandidateName(source_file, k) ==
    IF k = 0 THEN PathName(source_file)
    ELSE PathStem(source_file) \o <<"_">> \o Decimal(k) \o PathSuffix(source_file)

CandidatePath(category, source_file, k) ==
    [TargetDir(category, source_file) EXCEPT
        !.names = Append(@, CandidateName(source_file, k))]

\* path is an entry of the directory dir of the output tree
IsIn(path, dir) ==
    /\ path.category = dir.category
    /\ Len(path.names) = Len(dir.names) + 1
    /\ SubSeq(path.names, 1, Len(dir.names)) = dir.names

\* the output tree holds only directories and links to existing files
CleanTree(tree) == \A e \in tree : e.kind = "dir" \/ (e.kind = "link" /\ e.alive)

\* a live step that makes a link makes it at the first free candidate, for
\* the file being handled, and changes no entry that was there
C4_Step ==
    (AtFile /\ ~dry_run /\ stats'.created = stats.created + 1) =>
        \E k \in 0..Cardinality(fs) :
            LET t == CandidatePath(Group.category, Source, k)
            IN /\ \A j \in 0..(k - 1) :
                      Exists(fs, CandidatePath(Group.category, Source, j))
               /\ ~Lexists(fs, t)
               /\ fs \subseteq fs'
               /\ LinkEntry(t, Source, TRUE) \in fs'
               /\ \A e \in fs' \ fs : e.kind = "dir" \/ e = LinkEntry(t, Source, TRUE)

\* every link made in this run or the one before is still there and points
\* to its own source; without failures every file gets its link; and files
\* of one name going to an empty directory get name, <stem>_1<ext>, ...
C4_State ==
    /\ \A i \in DOMAIN log :
          log[i].event = "linked" => LinkEntry(log[i].target, log[i].source, TRUE) \in fs
    /\ \A i \in DOMAIN prev :
          prev[i].event = "linked" => LinkEntry(prev[i].target, prev[i].source, TRUE) \in fs
    /\ (~dry_run /\ faults = 0 /\ CleanTree(fs0)) =>
          \A i \in DOMAIN log : log[i].event = "linked"
    /\ \A i \in DOMAIN log :
          LET dir == TargetDir(log[i].category, log[i].source)
              same == {j \in 1..(i - 1) :
                          /\ TargetDir(log[j].category, log[j].source) = dir
                          /\ PathName(log[j].source) = PathName(log[i].source)}
              other == {j \in 1..(i - 1) :
                          /\ TargetDir(log[j].category, log[j].source) = dir
                          /\ PathName(log[j].source) # PathName(log[i].source)}
          IN (/\ ~dry_run
              /\ log[i].event = "linked"
              /\ other = {}
              /\ \A j \in same : log[j].event = "linked"
              /\ \A e \in fs0 : ~IsIn(e.path, dir))
             => LeafName(log[i].target) = CandidateName(log[i].source, Cardinality(same))

(* C4: in a live run, source files of one name that go to the same          *)
(* directory are linked at <name>, then at the first free                   *)
(* <stem>_<counter><ext> with counter 1, 2, 3, ...; no entry is overwritten *)
(* and every link made exists at the end and points to its own source.      *)
C4_CollisionResolution == []C4_State /\ [][C4_Step]_vars

C4_Witness ==
    /\ pc = "link_done"
    /\ ~dry_run
    /\ run = 1
    /\ fs0 = {}
    /\ Len(log) = 2
    /\ log[1].event = "linked"
    /\ log[2].event = "linked"
    /\ PathName(log[1].source) = <<"i", "m", "g", ".", "j", "p", "g">>
    /\ PathName(log[2].source) = <<"i", "m", "g", ".", "j", "p", "g">>
    /\ log[1].target = OutPath("pictures", <<<<"P", "h", "o", "t", "o", "s">>, <<"i", "m", "g", ".", "j", "p", "g">>>>)
    /\ log[2].target = OutPath("pictures", <<<<"P", "h", "o", "t", "o", "s">>, <<"i", "m", "g", "_", "1", ".", "j", "p", "g">>>>)

\* the scan roots under which path was found
RootsOf(path) == {d \in Range(drives) : IsUnder(path, d)}

(* C5 as amended: no inventoried file lies in a directory below its scan    *)
(* root for which the exclusion policy holds.                               *)
C5_NoFileBelowExcludedDirectory ==
    \A i \in DOMAIN found :
        \E d \in RootsOf(found[i].path) :
            \A k \in (Len(d.names) + 1)..(Len(found[i].path.names) - 1) :
                ~ExclusionPolicy(Ancestor(found[i].path, k))

(* C5 as claimed: no inventoried file lies in any directory for which the   *)
(* exclusion policy holds.                                                  *)
C5_NoFileInExcludedDirectory ==
    \A i \in DOMAIN found :
        \A k \in 1..(Len(found[i].path.names) - 1) :
            ~ExclusionPolicy(Ancestor(found[i].path, k))

C5_Witness ==
    /\ pc = "scan_done"
    /\ Posix(<<<<"d", "a", "t", "a">>>>) \in Range(drives)
    /\ Posix(<<<<"d", "a", "t", "a">>, <<"n", "o", "t", "e", "s", ".", "t", "x", "t">>>>) \in FoundPaths
    /\ Posix(<<<<"d", "a", "t", "a">>, <<".", "g", "i", "t">>, <<"l", "o", "g", "o", ".", "p", "n", "g">>>>) \notin FoundPaths

\* the counters never decrease during a run and a live step on a file
\* increments exactly one of them by one: created with the link made,
\* skipped when os.symlink found the target there, failed when os.symlink
\* failed otherwise
C6_Step ==
    /\ run' = run =>
          \A key \in {"created", "skipped", "failed"} : stats'[key] >= stats[key]
    /\ (AtFile /\ ~dry_run) =>
          LET d(key) == stats'[key] - stats[key]
              happened == log'[Len(log')]
              made == \E e \in fs' \ fs : e.kind = "link" /\ e.to = Source
          IN /\ d("created") + d("skipped") + d("failed") = 1
             /\ \A key \in {"created", "skipped", "failed"} : d(key) \in {0, 1}
             /\ d("created") = 1 <=> made
             /\ (happened.by = "symlink" /\ happened.event = "FileExistsError")
                   => (d("skipped") = 1 /\ Lexists(fs', happened.target))
             /\ (happened.by = "symlink" /\ happened.event # "FileExistsError")
                   => d("failed") = 1
             /\ Processed' = Processed + 1

C6_State ==
    /\ ~dry_run => stats.created + stats.skipped + stats.failed = Processed
    /\ (~dry_run /\ pc = "link_done") =>
          stats.created + stats.skipped + stats.failed = FilesIn(inventory)

RECURSIVE ExpectedUnder(_)
ExpectedUnder(dir) ==
    IF ~CanList(dir) THEN {}
    ELSE LET d == Listing(dir)
         IN {PathJoin(dir, d.files[i].name) : i \in
                {j \in DOMAIN d.files :
                    /\ d.files[j].attr # "system"
                    /\ get_file_category(PathJoin(dir, d.files[j].name)) # None}}
            \cup UNION {ExpectedUnder(PathJoin(dir, d.dirs[i])) : i \in
                {j \in DOMAIN d.dirs : ~should_exclude_directory(PathJoin(dir, d.dirs[j]))}}

(* C7: no failure while scanning (a metadata read, the progress observer,   *)
(* an unreadable directory or root) stops the scan elsewhere: the returned  *)
(* inventory holds every classifiable file of every directory reached.      *)
C7_ScanFailureIsolation ==
    pc = "scan_done" =>
        \A i \in DOMAIN drives : ExpectedUnder(drives[i]) \subseteq FoundPaths

UserDirs ==
    {Windows(<<<<"U", "s", "e", "r", "s">>, <<"A", "b", "e">>, <<"D", "o", "c", "u", "m", "e", "n", "t", "s">>>>),
     Windows(<<<<"U", "s", "e", "r", "s">>, <<"A", "b", "e">>, <<"P", "i", "c", "t", "u", "r", "e", "s">>>>),
     Posix(<<<<"U", "s", "e", "r", "s">>, <<"A", "b", "e">>, <<"D", "o", "c", "u", "m", "e", "n", "t", "s">>>>),
     Posix(<<<<"U", "s", "e", "r", "s">>, <<"A", "b", "e">>, <<"P", "i", "c", "t", "u", "r", "e", "s">>>>)}

(* C8: should_exclude_directory returns true for a hidden name, a name of   *)
(* EXCLUDED_DIRS and a path with a component of EXCLUDED_DIRS, in any       *)
(* letter case, and false for an ordinary user directory.                   *)
C8_ExclusionPolicy ==
    pc = "returned" =>
        /\ ExclusionPolicy(arg) => ret = TRUE
        /\ ~ExclusionPolicy(arg) => ret = FALSE
        /\ arg \in UserDirs => ret = FALSE

C8_Witness ==
    /\ pc = "returned"
    /\ arg = Windows(<<<<"W", "i", "n", "d", "o", "w", "s">>, <<"S", "y", "s", "t", "e", "m", "3", "2">>>>)
    /\ Lower(PathName(arg)) \notin EXCLUDED_DIRS
    /\ ret = TRUE

\* the final extension as the specification words it: the text from the
\* last '.', none when the name has no '.' or only a leading one
FinalExtension(name) ==
    LET dots == {i \in DOMAIN name : name[i] = "."}
    IN IF dots = {} \/ dots = {1} THEN <<>>
       ELSE SubSeq(name, CHOOSE i \in dots : \A j \in dots : j <= i, Len(name))

(* C9: get_file_category depends only on the lower-cased final extension:   *)
(* the extension sets are disjoint, a name whose extension is in a set      *)
(* gives that category in any letter case, every other name gives none.     *)
C9_Classification ==
    /\ \A c1, c2 \in Categories :
          c1 # c2 => FILE_CATEGORIES[c1] \cap FILE_CATEGORIES[c2] = {}
    /\ pc = "returned" =>
          LET e == Lower(FinalExtension(PathName(arg)))
          IN /\ \A c \in Categories : e \in FILE_CATEGORIES[c] => ret = c
             /\ e \notin AllExtensions => ret = None

C9_Witness ==
    /\ pc = "returned"
    /\ PathSuffix(arg) = <<".", "J", "P", "G">>
    /\ ret = "pictures"

(* C10: every target returned by create_hybrid_structure is                 *)
(* <category>/<namespace>/<file name> with a namespace that is not empty:   *)
(* the parent directory's name, else the drive's token, else "root".        *)
C10_TargetHasNamespace ==
    \A i \in Returned :
        /\ Len(log[i].target.names) = 2
        /\ log[i].target.names[1] # <<>>
        /\ log[i].target.names[1] \in
              {PathName(PathParent(log[i].source)),
               Remove(Remove(log[i].source.drive, ":"), "\\"),
               <<"r", "o", "o", "t">>}
=============================================================================
